---- MODULE Spec2Model ----
(***************************************************************************)
(* A model of setup.py, the ESMValTool installation script.                *)
(*                                                                         *)
(* The script opens README.md, hands the package descriptor to setup(),    *)
(* and setup() runs the commands of the command line.  The `test` command  *)
(* is bound to RunTests, whose run() calls pytest.main with a fixed        *)
(* argument list and leaves the process through sys.exit.                  *)
(*                                                                         *)
(* The filesystem (README.md, the tests directory, the report directory,   *)
(* the installed console scripts) outlives one run of the script, so the   *)
(* model runs the script again and again, until the test command has run   *)
(* MaxRuns times.                                                          *)
(***************************************************************************)
EXTENDS Integers, Sequences, FiniteSets, TLC

----------------------------------------------------------------------------
(* Bounds of the model *)

\* Runs of the test command in one behaviour.
MaxRuns == 2

\* Commands on one command line.
MaxCmds == 2

\* The longest sequence of calls of the two lifecycle hooks that the hooks
\* are tried on.
MaxHookCalls == 2

\* The test engine returns a status in 0 .. MaxStatus (pytest documents 0..5).
MaxStatus == 5

----------------------------------------------------------------------------
(* Values that stand for "nothing" *)

ABSENT == "<absent>"
NoDist == [name |-> "<none>"]
NoCmd == [cls |-> "<none>"]
\* An exit code is <<>> while the process runs and <<code>> once it ended.
NoExit == <<>>

----------------------------------------------------------------------------
(* Strings *)

\* str.format with one replacement field: a template is the text before and
\* the text after its "{}".
Format(template, arg) == template[1] \o arg \o template[2]

RECURSIVE Join(_)
\* The string spelled by a sequence of one-character strings.
Join(chars) == IF chars = <<>> THEN "" ELSE Head(chars) \o Join(Tail(chars))

\* The smallest index of ch in chars, 0 when there is none (str.find, + 1).
Find(chars, ch) ==
    LET hits == {i \in 1..Len(chars) : chars[i] = ch}
    IN  IF hits = {} THEN 0 ELSE CHOOSE i \in hits : \A j \in hits : i <= j

RECURSIVE Strip(_)
\* str.strip: the blanks at both ends removed.
Strip(chars) ==
    IF chars = <<>> THEN <<>>
    ELSE IF Head(chars) = " " THEN Strip(Tail(chars))
    ELSE IF chars[Len(chars)] = " " THEN Strip(SubSeq(chars, 1, Len(chars) - 1))
    ELSE chars

\* The elements of a list, as a set.
Range(seq) == {seq[i] : i \in 1..Len(seq)}

----------------------------------------------------------------------------
(* The package descriptor: the keyword arguments of setup() *)

PACKAGES == <<"esmvaltool">>

NAME == "ESMValTool"

VERSION == "2.0.0"

SETUP_REQUIRES == <<"setuptools_scm">>

\* A variant of INSTALL_REQUIRES: the last name left out.
INSTALL_REQUIRES_Short ==
    <<"cdo", "cf_units", "coverage", "cython", "esgf-pyclient", "numpy",
      "netCDF4", "matplotlib", "pyyaml", "pytest", "pytest-cov">>

INSTALL_REQUIRES ==
    <<"cdo", "cf_units", "coverage", "cython", "esgf-pyclient", "numpy",
      "netCDF4", "matplotlib", "pyyaml", "pytest", "pytest-cov", "shapely">>

\* A variant of TESTS_REQUIRE: the test-only names alone, one of them twice.
TESTS_REQUIRE_Own == <<"easytest", "mock", "nose", "nose">>

TESTS_REQUIRE == <<"easytest", "mock", "nose", "pytest", "pytest-cov">>

\* A variant of CONSOLE_SCRIPTS: a second command, 'nclcodestyle = n:run'.
CONSOLE_SCRIPTS_Two ==
    << <<"e","s","m","v","a","l","t","o","o","l"," ","="," ",
         "e","s","m","v","a","l","t","o","o","l",".","m","a","i","n",
         ":","r","u","n">>,
       <<"n","c","l","c","o","d","e","s","t","y","l","e"," ","="," ",
         "n",":","r","u","n">> >>

\* 'esmvaltool = esmvaltool.main:run', character by character.
CONSOLE_SCRIPTS ==
    << <<"e","s","m","v","a","l","t","o","o","l"," ","="," ",
         "e","s","m","v","a","l","t","o","o","l",".","m","a","i","n",
         ":","r","u","n">> >>

ENTRY_POINTS == [console_scripts |-> CONSOLE_SCRIPTS]

CMDCLASS == [test |-> "RunTests"]

\* RunTests.user_options
user_options == <<>>

----------------------------------------------------------------------------
(* setuptools: what setup() does with the descriptor and the command line *)

\* An entry point 'name = module:attr' split as setuptools splits it.
ParseEntryPoint(src) ==
    LET eq    == Find(src, "=")
        key   == Strip(SubSeq(src, 1, eq - 1))
        value == Strip(SubSeq(src, eq + 1, Len(src)))
        colon == Find(value, ":")
    IN  [name   |-> Join(key),
         module |-> Join(Strip(SubSeq(value, 1, colon - 1))),
         attr   |-> Join(Strip(SubSeq(value, colon + 1, Len(value))))]

\* The console commands a descriptor declares.
ConsoleScripts(dist) ==
    {ParseEntryPoint(dist.entry_points.console_scripts[i]) :
        i \in 1..Len(dist.entry_points.console_scripts)}

\* A console command as a distribution declares it.
Script(name, module, attr) ==
    [name |-> name, module |-> module, attr |-> attr]

\* A package index: the distributions install can fetch from it, what each
\* requires in its turn, and the console commands each declares.  What a
\* distribution declares is its own business; the descriptor names the
\* direct requirements and nothing more of them.
Index(requires, scripts) ==
    LET names == Range(INSTALL_REQUIRES) \cup DOMAIN requires
                     \cup UNION {requires[d] : d \in DOMAIN requires}
                     \cup DOMAIN scripts
    IN  [requires |-> [d \in names |->
                          IF d \in DOMAIN requires THEN requires[d] ELSE {}],
         scripts  |-> [d \in names |->
                          IF d \in DOMAIN scripts THEN scripts[d] ELSE {}]]

\* The console commands of the distributions the indexes hold.
PytestScripts ==
    {Script("pytest", "pytest", "console_main"),
     Script("py.test", "pytest", "console_main")}

PluggyScripts == {Script("pluggy-cli", "pluggy", "main")}

\* The indexes an install is run against: one in which pytest, a
\* requirement, declares console commands; and one in which pytest also
\* requires pluggy, which declares one of its own.
Indexes ==
    {Index(<<>>, [pytest |-> PytestScripts]),
     Index([pytest |-> {"pluggy"}],
           [pytest |-> PytestScripts, pluggy |-> PluggyScripts])}

\* WorkingSet.resolve: the distributions an install needs, the requirements
\* and the requirements of the requirements.
RECURSIVE Needed(_, _)
Needed(index, requirements) ==
    LET known == requirements \cap DOMAIN index.requires
        more  == requirements \cup UNION {index.requires[d] : d \in known}
    IN  IF more = requirements THEN requirements ELSE Needed(index, more)

\* The needed distributions that declare console commands.
ScriptProviders(index, requirements) ==
    {d \in Needed(index, requirements) \cap DOMAIN index.scripts :
        index.scripts[d] # {}}

\* The console commands install writes for the distributions it fetched.
DependencyScripts(index, fetched) ==
    UNION {index.scripts[d] : d \in fetched}

\* The distribution object setup() builds from its keyword arguments.
Distribution(readme_text) ==
    [name                 |-> NAME,
     version              |-> VERSION,
     description          |-> readme_text,
     packages             |-> PACKAGES,
     include_package_data |-> TRUE,
     use_scm_version      |-> TRUE,
     setup_requires       |-> SETUP_REQUIRES,
     install_requires     |-> INSTALL_REQUIRES,
     tests_require        |-> TESTS_REQUIRE,
     entry_points         |-> ENTRY_POINTS,
     cmdclass             |-> CMDCLASS]

\* The class that runs a command: the descriptor's cmdclass entry, else the
\* build tool's own command of that name.
CommandClass(dist, cmd) ==
    IF cmd \in DOMAIN dist.cmdclass THEN dist.cmdclass[cmd]
    ELSE "setuptools." \o cmd

\* setuptools._install_setup_requires: the build-time requirements of the
\* descriptor are fetched before anything else; it succeeds when each of
\* them can be had.
InstallSetupRequires(requires, can_be_had) ==
    Range(requires) \subseteq can_be_had

\* Distribution.global_options: the options the build tool accepts after
\* every command.
global_options == <<"verbose", "quiet", "dry-run", "help", "no-user-cfg">>

\* The options a command class declares: RunTests has the ones it declares,
\* the build tool's install has twenty-one (those that end in `=` take a
\* value), the build tool's own test command has three.
UserOptions(cls) ==
    IF cls = "RunTests" THEN user_options
    ELSE IF cls = "setuptools.install"
         THEN <<"prefix=", "exec-prefix=", "home=", "install-base=",
                "install-platbase=", "root=", "install-purelib=",
                "install-platlib=", "install-lib=", "install-headers=",
                "install-scripts=", "install-data=", "compile",
                "no-compile", "optimize=", "force", "skip-build", "record=",
                "user", "old-and-unmanageable",
                "single-version-externally-managed">>
    ELSE IF cls = "setuptools.test"
         THEN <<"test-module=", "test-suite=", "test-runner=">>
    ELSE <<>>

\* The help options a command class declares: neither RunTests nor install
\* has any.
HelpOptions(cls) == <<>>

\* The options the parser accepts after a command of class cls.
OptionTable(cls) ==
    Range(global_options) \cup Range(UserOptions(cls))
        \cup Range(HelpOptions(cls))

\* Distribution.negative_opt, with the negative options of the class: an
\* option that turns another one off.
NegativeOpt(cls) ==
    IF cls = "setuptools.install"
        THEN [o \in {"quiet", "no-compile"} |->
                 IF o = "quiet" THEN "verbose" ELSE "compile"]
        ELSE [o \in {"quiet"} |-> "verbose"]

\* FancyGetopt.get_attr_name: the attribute an option is stored in, its
\* name with `_` for every `-`.  The names are those of the option tables,
\* without the `=` of an option that takes a value; a name without `-` is
\* its own attribute.
AttrName(opt) ==
    LET hyphenated ==
            [dry_run     |-> "dry-run",
             no_user_cfg |-> "no-user-cfg",
             exec_prefix |-> "exec-prefix",
             install_base     |-> "install-base",
             install_platbase |-> "install-platbase",
             install_purelib  |-> "install-purelib",
             install_platlib  |-> "install-platlib",
             install_lib      |-> "install-lib",
             install_headers  |-> "install-headers",
             install_scripts  |-> "install-scripts",
             install_data     |-> "install-data",
             no_compile  |-> "no-compile",
             skip_build  |-> "skip-build",
             old_and_unmanageable |-> "old-and-unmanageable",
             single_version_externally_managed |->
                 "single-version-externally-managed",
             test_module |-> "test-module",
             test_suite  |-> "test-suite",
             test_runner |-> "test-runner"]
        attrs == {a \in DOMAIN hyphenated : hyphenated[a] = opt}
    IN  IF attrs # {} THEN CHOOSE a \in attrs : TRUE ELSE opt

\* The attributes of a list of option values, and the value of one.
Attrs(object) == {object[i].attr : i \in 1..Len(object)}

ValueOf(object, attr) ==
    object[CHOOSE i \in 1..Len(object) : object[i].attr = attr].val

\* An attribute is given a value: in its place when it has one, else last.
SetAttr(object, attr, val) ==
    IF attr \in Attrs(object)
        THEN [i \in 1..Len(object) |->
                 IF object[i].attr = attr
                     THEN [attr |-> attr, val |-> val]
                     ELSE object[i]]
        ELSE Append(object, [attr |-> attr, val |-> val])

\* FancyGetopt.getopt on the options given to one command, each a flag of
\* the option table: a negative option sets the attribute of the option it
\* turns off to 0, `verbose` counts, any other flag sets its attribute to 1.
RECURSIVE Getopt(_, _, _)
Getopt(cls, opts, object) ==
    IF opts = <<>> THEN object
    ELSE LET opt  == Head(opts)
             neg  == NegativeOpt(cls)
             attr == AttrName(IF opt \in DOMAIN neg THEN neg[opt] ELSE opt)
             old  == IF attr \in Attrs(object)
                         THEN ValueOf(object, attr) ELSE 0
             val  == IF opt \in DOMAIN neg THEN 0
                     ELSE IF attr = "verbose" THEN old + 1
                     ELSE 1
         IN  Getopt(cls, Tail(opts), SetAttr(object, attr, val))

\* Whether the options given to one command ask for help.
AsksHelp(cls, opts) ==
    LET object == Getopt(cls, opts, <<>>)
    IN  "help" \in Attrs(object) /\ ValueOf(object, "help") # 0

\* Distribution._parse_command_opts, command after command: an option that
\* is not in the table of its command is an error, a command asked for help
\* ends the parsing there, and the commands are run when all were read.
RECURSIVE ParseCommands(_, _)
ParseCommands(dist, args) ==
    IF args = <<>> THEN "run"
    ELSE LET cls == CommandClass(dist, Head(args).cmd)
         IN  IF ~(Range(Head(args).opts) \subseteq OptionTable(cls))
                 THEN "error"
             ELSE IF AsksHelp(cls, Head(args).opts) THEN "help"
             ELSE ParseCommands(dist, Tail(args))

\* Distribution.parse_command_line: the command line is read whole before
\* any command runs; a command line without a command is an error.
parse_command_line(dist, argv) ==
    IF argv = <<>> THEN "error" ELSE ParseCommands(dist, argv)

\* The command line is accepted, and its commands are run.
CommandLineOk(dist, argv) == parse_command_line(dist, argv) = "run"

\* Distribution.command_options[cmd] of an accepted command line: the
\* option values of every place the command is named in.
RECURSIVE CommandOptions(_, _, _, _)
CommandOptions(dist, args, cmd, object) ==
    IF args = <<>> THEN object
    ELSE IF Head(args).cmd # cmd
         THEN CommandOptions(dist, Tail(args), cmd, object)
    ELSE LET given == Getopt(CommandClass(dist, cmd), Head(args).opts, <<>>)
             Merge[i \in 0..Len(given)] ==
                 IF i = 0 THEN object
                 ELSE SetAttr(Merge[i - 1], given[i].attr, given[i].val)
         IN  CommandOptions(dist, Tail(args), cmd, Merge[Len(given)])

\* hasattr on a command object: the attributes it has, and dry_run, which
\* Command.__getattr__ answers for.
HasAttr(self, attr) == attr \in DOMAIN self \/ attr = "dry_run"

\* Distribution._set_command_options: every option value is set as an
\* attribute of the command object; one the object has no attribute for is
\* an error, which ends the process with exit code 1.
RECURSIVE set_command_options(_, _)
set_command_options(world, options) ==
    IF options = <<>> THEN world
    ELSE IF ~HasAttr(world.self, Head(options).attr)
         THEN [world EXCEPT !.exit = <<1>>]
    ELSE set_command_options(
             [world EXCEPT
                 !.self = (Head(options).attr :> Head(options).val) @@ @],
             Tail(options))

\* Command.__init__: the attributes it sets once initialize_options has
\* returned.
ConstructorDefaults ==
    [_dry_run  |-> "None",
     verbose   |-> 1,
     force     |-> "None",
     help      |-> 0,
     finalized |-> 0]

\* The attributes of a fresh command object whose initialize_options set
\* none.
NewCommand(cls, dist) ==
    ConstructorDefaults @@ [cls |-> cls, distribution |-> dist.name]

----------------------------------------------------------------------------
(* The filesystem under the invocation directory *)

\* The directories and the leaf names report paths are made of.
ReportDirs == {"test-reports", "reports"}

ReportLeaves == {"/coverage_html", "/coverage.xml", "/report.xml"}

\* Every path of the model: the report paths, and one file the command
\* never names.
StalePath == "test-reports/stale.txt"

Paths == {d \o l : d \in ReportDirs, l \in ReportLeaves} \cup {StalePath}

\* The paths that may hold something before the first run: an old report
\* and the file the command never names.
PriorPaths == {"test-reports/report.xml", StalePath}

\* What a path holds is the list of the writes that made it: <<>> for a
\* path that does not exist, <<"prior">> for what was there before the first
\* run, <<"report">> for what the test engine wrote over it.
Missing == <<>>

Prior == <<"prior">>

Report == <<"report">>

----------------------------------------------------------------------------
(* The test engine: pytest.main *)

\* The options that name a report sink.
SinkOptions == {"--cov-report=html:", "--cov-report=xml:", "--junit-xml="}

\* The sink an argument names under option opt (none: the empty set).
SinkOf(opt, arg) == {p \in Paths : arg = opt \o p}

\* The coverage target an argument names.
CovTargetOf(arg) == {t \in {"esmvaltool", "tests"} : arg = "--cov=" \o t}

IsOption(arg) ==
    \/ CovTargetOf(arg) # {}
    \/ \E opt \in SinkOptions : SinkOf(opt, arg) # {}

\* What an argument list asks of the engine.
TestRoots(args) == {args[i] : i \in {j \in 1..Len(args) : ~IsOption(args[j])}}

CovTargets(args) == UNION {CovTargetOf(args[i]) : i \in 1..Len(args)}

Sinks(args) ==
    UNION {SinkOf(opt, args[i]) : opt \in SinkOptions, i \in 1..Len(args)}

\* The outcomes of one call of the engine: the status it returns and the
\* sinks it writes.  A test root that does not exist is an error, reported
\* as a non-zero status.  A session that ran the tests of an existing root
\* (status 0: all passed, status 1: some failed) produces every report
\* asked for; one that ended in an error produces any of them, and nothing
\* else.
pytest_main(args, tests_dir) ==
    LET roots_exist == \A r \in TestRoots(args) : r = "tests" /\ tests_dir
        statuses    == IF roots_exist THEN 0..MaxStatus ELSE 1..MaxStatus
    IN  {out \in [status : statuses, wrote : SUBSET Sinks(args)] :
            (roots_exist /\ out.status \in {0, 1}) =>
                out.wrote = Sinks(args)}

----------------------------------------------------------------------------
(* RunTests *)

\* The world a method of the command can touch.
\*   self: the command's attributes; fs: the filesystem;
\*   engine_log: the calls of the test engine; exit: the process's exit code.

\* A variant of initialize_options: it gives an option of its own a
\* default.
initialize_options_Default(world) ==
    [world EXCEPT !.self = [report_dir |-> "None"] @@ @]

\* RunTests.initialize_options: "Do nothing".
initialize_options(world) == world

\* RunTests.finalize_options: "Do nothing".
finalize_options(world) == world

\* A variant of report_dir: another directory.
report_dir_Other == "reports"

\* report_dir in RunTests.run
report_dir == "test-reports"

\* A variant of PytestArgs: the test results go to a directory of their
\* own.
PytestArgs_SplitDirs(dir) ==
    <<"tests",
      "--cov=esmvaltool",
      Format(<<"--cov-report=html:", "/coverage_html">>, dir),
      Format(<<"--cov-report=xml:", "/coverage.xml">>, dir),
      Format(<<"--junit-xml=", "/report.xml">>, "reports")>>

\* The argument list RunTests.run gives to pytest.main.
PytestArgs(dir) ==
    <<"tests",
      "--cov=esmvaltool",
      Format(<<"--cov-report=html:", "/coverage_html">>, dir),
      Format(<<"--cov-report=xml:", "/coverage.xml">>, dir),
      Format(<<"--junit-xml=", "/report.xml">>, dir)>>

\* A variant of SysExit: failure or success, not the status.
SysExit_Classified(errno) == <<IF errno = 0 THEN 0 ELSE 1>>

\* A variant of SysExit: sys.exit() without the status.
SysExit_NoStatus(errno) == <<0>>

\* sys.exit(errno): the exit code the host process ends with.  (NoExit
\* would be a call that comes back.)
SysExit(errno) == <<errno % 256>>

\* A variant of Attempts: a failed session is tried once more.
Attempts_Retry(status) == IF status = 0 THEN 1 ELSE 2

\* The calls of pytest.main one call of RunTests.run makes, given the
\* status of the first: one, whatever the status.
Attempts(status) == 1

----------------------------------------------------------------------------
(* State *)

VARIABLES
    pc,              \* where the script is: idle, open, setup, commands,
                     \* command (a RunTests object exists), exited
    readme,          \* README.md: its text, or ABSENT
    testsDir,        \* whether the directory `tests` exists
    canBeHad,        \* the build-time requirements that can be had
    pytestInstalled, \* whether the last `import pytest` succeeded
    argv,            \* the command line
    dist,            \* the distribution setup() built, or NoDist
    pos,             \* the commands of the command line dealt with
    executed,        \* the commands whose run() was entered, in order
    have_run,        \* the commands whose run() returned
    packageDir,      \* whether the last install found the package directory
    cmdObj,          \* the attributes of the RunTests object, or NoCmd
    hookLog,         \* the hooks called on cmdObj, in order
    fs,              \* what each path holds
    fsStart,         \* what each path held when the script was started
    engineLog,       \* the calls of pytest.main in this run of the script
    exitCode,        \* the exit code of the process
    runs,            \* runs of the test command, over all runs of the script
    installed        \* the console commands installed

vars == <<pc, readme, testsDir, canBeHad, pytestInstalled, argv, dist, pos, executed,
          have_run, packageDir, cmdObj, hookLog, fs, fsStart, engineLog,
          exitCode, runs, installed>>

\* The commands of a command line: the name and the options given to it.
\* A command is named alone, or `test` is given a global option of the
\* build tool or an option no table of its has, or `install` is given an
\* option of its own.
PlainWords == {[cmd |-> c, opts |-> <<>>] : c \in {"install", "test"}}

OptionWords ==
    {[cmd |-> "test", opts |-> <<o>>] :
        o \in {"verbose", "quiet", "dry-run", "help", "no-user-cfg",
               "test-suite"}}
        \cup {[cmd |-> "install", opts |-> <<"force">>]}

CmdWords == PlainWords \cup OptionWords

\* The command lines: up to MaxCmds commands named alone, and the ones in
\* which one command is given an option, alone or after `install`.
CmdLines ==
    UNION {[1..n -> PlainWords] : n \in 0..MaxCmds}
        \cup {line \in {<<w>> : w \in OptionWords}
                         \cup {<<[cmd |-> "install", opts |-> <<>>], w>> :
                                  w \in OptionWords} :
                 Len(line) <= MaxCmds}

ReadmeTexts == {ABSENT, "# ESMValTool"}

Init ==
    /\ pc = "idle"
    /\ readme = ABSENT
    /\ testsDir = FALSE
    /\ canBeHad = Range(SETUP_REQUIRES)
    /\ pytestInstalled = TRUE
    /\ argv = <<>>
    /\ dist = NoDist
    /\ pos = 0
    /\ executed = <<>>
    /\ have_run = {}
    /\ packageDir = TRUE
    /\ cmdObj = NoCmd
    /\ hookLog = <<>>
    /\ \E prior \in SUBSET PriorPaths :
          fs = [p \in Paths |-> IF p \in prior THEN Prior ELSE Missing]
    /\ fsStart = fs
    /\ engineLog = <<>>
    /\ exitCode = NoExit
    /\ runs = 0
    /\ installed = {}

\* The world the methods of the command object act on.
World == [self |-> cmdObj, fs |-> fs, engine_log |-> engineLog,
          exit |-> exitCode]

----------------------------------------------------------------------------
(* Actions *)

\* `python setup.py <argv>` is started in a directory that holds README.md
\* or not, and the directory `tests` or not.
Invoke ==
    /\ pc = "idle"
    /\ runs < MaxRuns
    /\ \E r \in ReadmeTexts, t \in BOOLEAN, a \in CmdLines :
          /\ readme' = r
          /\ testsDir' = t
          /\ argv' = a
    /\ fsStart' = fs
    /\ pc' = "open"
    /\ UNCHANGED <<canBeHad, pytestInstalled, dist, pos, executed, have_run,
                   packageDir, cmdObj, hookLog, fs, engineLog, exitCode, runs,
                   installed>>

\* A variant of OpenReadme: a missing README.md is passed over.
OpenReadme_Lenient ==
    /\ pc = "open"
    /\ pc' = "setup"
    /\ UNCHANGED <<readme, testsDir, canBeHad, pytestInstalled, argv, dist, pos,
                   executed, have_run, packageDir, cmdObj, hookLog, fs,
                   fsStart, engineLog, exitCode, runs, installed>>

\* with open('README.md') as readme: a missing file raises, and the
\* uncaught exception ends the process with exit code 1.
OpenReadme ==
    /\ pc = "open"
    /\ \/ /\ readme = ABSENT
          /\ pc' = "exited"
          /\ exitCode' = <<1>>
       \/ /\ readme # ABSENT
          /\ pc' = "setup"
          /\ UNCHANGED exitCode
    /\ UNCHANGED <<readme, testsDir, canBeHad, pytestInstalled, argv, dist, pos,
                   executed, have_run, packageDir, cmdObj, hookLog, fs,
                   fsStart, engineLog, runs, installed>>

\* setup(...): the build-time requirements are fetched, and one that cannot
\* be had ends the process with exit code 1 before there is a distribution.
\* Then the distribution is built from the keyword arguments and the command
\* line is read: a command line it refuses ends the process with a usage
\* error (SystemExit with a message: exit code 1), one that asks for help
\* ends it with exit code 0 and no command run.
Setup ==
    /\ pc = "setup"
    /\ \E had \in SUBSET Range(SETUP_REQUIRES) : canBeHad' = had
    /\ IF ~InstallSetupRequires(SETUP_REQUIRES, canBeHad')
          THEN /\ pc' = "exited"
               /\ exitCode' = <<1>>
               /\ UNCHANGED dist
          ELSE /\ dist' = Distribution(readme)
               /\ \/ /\ parse_command_line(dist', argv) = "run"
                     /\ pc' = "commands"
                     /\ UNCHANGED exitCode
                  \/ /\ parse_command_line(dist', argv) = "help"
                     /\ pc' = "exited"
                     /\ exitCode' = <<0>>
                  \/ /\ parse_command_line(dist', argv) = "error"
                     /\ pc' = "exited"
                     /\ exitCode' = <<1>>
    /\ UNCHANGED <<readme, testsDir, pytestInstalled, argv, pos, executed,
                   have_run, packageDir, cmdObj, hookLog, fs, fsStart,
                   engineLog, runs, installed>>

\* The command the build tool runs next.
NextCmd == argv[pos + 1].cmd

\* Distribution.run_command on a command that has run already: nothing.
SkipRun ==
    /\ pc = "commands"
    /\ pos < Len(argv)
    /\ NextCmd \in have_run
    /\ pos' = pos + 1
    /\ UNCHANGED <<pc, readme, testsDir, canBeHad, pytestInstalled, argv, dist,
                   executed, have_run, packageDir, cmdObj, hookLog, fs,
                   fsStart, engineLog, exitCode, runs, installed>>

\* The build tool runs one of its own commands, `install`.  Without the
\* package directory it fails before it installs anything.  With it, the
\* console commands the descriptor declares are installed, and then the
\* distributions the package needs are looked for in the index, the
\* requirements of the requirements too: one that is not there yet is
\* fetched and installed with the console commands it declares, and one
\* that cannot be had fails the command, after those fetched before it were
\* installed.  A failed command ends the process with exit code 1.
RunBuiltin ==
    /\ pc = "commands"
    /\ pos < Len(argv)
    /\ NextCmd \notin have_run
    /\ CommandClass(dist, NextCmd) # "RunTests"
    /\ executed' = Append(executed, NextCmd)
    /\ \/ /\ packageDir' = FALSE
          /\ pc' = "exited"
          /\ exitCode' = <<1>>
          /\ UNCHANGED <<pos, have_run, installed>>
       \/ /\ packageDir' = TRUE
          /\ \E index \in Indexes :
             \E fetched \in
                    SUBSET ScriptProviders(index,
                                           Range(dist.install_requires)) :
                installed' = installed \cup ConsoleScripts(dist)
                                 \cup DependencyScripts(index, fetched)
          /\ pos' = pos + 1
          /\ have_run' = have_run \cup {NextCmd}
          /\ UNCHANGED <<pc, exitCode>>
       \/ /\ packageDir' = TRUE
          /\ \E index \in Indexes :
             \E fetched \in
                    SUBSET ScriptProviders(index,
                                           Range(dist.install_requires)) :
                /\ Needed(index, Range(dist.install_requires)) \ fetched
                       # {}
                /\ installed' = installed \cup ConsoleScripts(dist)
                                    \cup DependencyScripts(index, fetched)
          /\ pc' = "exited"
          /\ exitCode' = <<1>>
          /\ UNCHANGED <<pos, have_run>>
    /\ UNCHANGED <<readme, testsDir, canBeHad, pytestInstalled, argv, dist,
                   cmdObj, hookLog, fs, fsStart, engineLog, runs>>

\* What a method of the command leaves of the world becomes the state.
HookResult(world, next_pc) ==
    /\ cmdObj' = world.self
    /\ fs' = world.fs
    /\ engineLog' = world.engine_log
    /\ exitCode' = world.exit
    /\ pc' = IF world.exit = NoExit THEN next_pc ELSE "exited"

\* Command.__init__ on a class and a distribution: the object has its
\* distribution, initialize_options is called, and then the constructor sets
\* the attributes of its own.
Construct(cls, d, world) ==
    LET made == initialize_options(
                    [world EXCEPT !.self = [cls |-> cls,
                                            distribution |-> d.name]])
    IN  [made EXCEPT !.self = ConstructorDefaults @@ made.self]

\* Distribution.get_command_obj: the build tool makes the command object of
\* a command bound to RunTests; the constructor calls initialize_options,
\* and the options the command line gave the command are set on the object.
CreateCommand ==
    /\ pc = "commands"
    /\ pos < Len(argv)
    /\ NextCmd \notin have_run
    /\ CommandClass(dist, NextCmd) = "RunTests"
    /\ hookLog' = <<"initialize_options">>
    /\ HookResult(
           set_command_options(
               Construct(CommandClass(dist, NextCmd), dist, World),
               CommandOptions(dist, argv, NextCmd, <<>>)),
           "command")
    /\ UNCHANGED <<readme, testsDir, canBeHad, pytestInstalled, argv, dist, pos,
                   executed, have_run, packageDir, fsStart, runs, installed>>

\* Command.ensure_finalized, called once the object is made:
\* finalize_options is called, and the object is marked finalized.
EnsureFinalized ==
    /\ pc = "command"
    /\ cmdObj.finalized = 0
    /\ hookLog' = Append(hookLog, "finalize_options")
    /\ LET done == finalize_options(World)
       IN  HookResult([done EXCEPT !.self.finalized = 1], "command")
    /\ UNCHANGED <<readme, testsDir, canBeHad, pytestInstalled, argv, dist, pos,
                   executed, have_run, packageDir, fsStart, runs, installed>>

\* The filesystem after the engine wrote the sinks in wrote: a sink is
\* written over, never added to.
WriteReports(files, wrote) ==
    [p \in Paths |-> IF p \in wrote THEN Report ELSE files[p]]

\* RunTests.run: `import pytest` (a failure is an uncaught exception: exit
\* code 1), then pytest.main on the fixed argument list, then sys.exit on
\* its status.  The command object is gone with the process; a run that
\* came back would give control back to the build tool.
Run ==
    /\ pc = "command"
    /\ cmdObj.finalized = 1
    /\ executed' = Append(executed, NextCmd)
    /\ runs' = runs + 1
    /\ cmdObj' = NoCmd
    /\ hookLog' = <<>>
    /\ \/ /\ pytestInstalled' = FALSE
          /\ exitCode' = <<1>>
          /\ pc' = "exited"
          /\ UNCHANGED <<fs, engineLog, pos, have_run>>
       \/ /\ pytestInstalled' = TRUE
          /\ \E out \in pytest_main(PytestArgs(report_dir), testsDir) :
                /\ engineLog' = engineLog \o
                      [i \in 1..Attempts(out.status) |->
                          [args |-> PytestArgs(report_dir),
                           status |-> out.status,
                           wrote |-> out.wrote]]
                /\ fs' = WriteReports(fs, out.wrote)
                /\ exitCode' = SysExit(out.status)
                /\ IF SysExit(out.status) = NoExit
                   THEN /\ pc' = "commands"
                        /\ pos' = pos + 1
                        /\ have_run' = have_run \cup {NextCmd}
                   ELSE /\ pc' = "exited"
                        /\ UNCHANGED <<pos, have_run>>
    /\ UNCHANGED <<readme, testsDir, canBeHad, argv, dist, packageDir, fsStart,
                   installed>>

\* setup() returns once every command has run, and the script ends.
Finish ==
    /\ pc = "commands"
    /\ pos = Len(argv)
    /\ pc' = "exited"
    /\ exitCode' = <<0>>
    /\ UNCHANGED <<readme, testsDir, canBeHad, pytestInstalled, argv, dist, pos,
                   executed, have_run, packageDir, cmdObj, hookLog, fs,
                   fsStart, engineLog, runs, installed>>

\* The process is gone: nothing of it is left but what it did to the
\* filesystem.
ProcessGone ==
    /\ pc = "exited"
    /\ pc' = "idle"
    /\ readme' = ABSENT
    /\ testsDir' = FALSE
    /\ canBeHad' = Range(SETUP_REQUIRES)
    /\ pytestInstalled' = TRUE
    /\ argv' = <<>>
    /\ dist' = NoDist
    /\ pos' = 0
    /\ executed' = <<>>
    /\ have_run' = {}
    /\ packageDir' = TRUE
    /\ cmdObj' = NoCmd
    /\ hookLog' = <<>>
    /\ fsStart' = fs
    /\ engineLog' = <<>>
    /\ exitCode' = NoExit
    /\ UNCHANGED <<fs, runs, installed>>

Next ==
    \/ Invoke
    \/ OpenReadme
    \/ Setup
    \/ SkipRun
    \/ RunBuiltin
    \/ CreateCommand
    \/ EnsureFinalized
    \/ Run
    \/ Finish
    \/ ProcessGone

Spec == Init /\ [][Next]_vars

----------------------------------------------------------------------------
(* Properties *)

\* The three report artifacts.
ReportArtifacts ==
    {"test-reports/coverage_html", "test-reports/coverage.xml",
     "test-reports/report.xml"}

\* The paths that hold what the test command wrote.
Written == {p \in Paths : fs[p] = Report}

\* The test command was the last command entered.
TestRan == executed # <<>> /\ executed[Len(executed)] = "test"

\* The one console command.
EsmvaltoolScript ==
    [name |-> "esmvaltool", module |-> "esmvaltool.main", attr |-> "run"]

\* C1: with an existing tests directory, a script whose test engine
\* returned status s ends with exit code s, for every s; the exit code is 0
\* exactly when the engine reported 0.
C1_ExitIsEngineStatus ==
    (pc = "exited" /\ testsDir /\ engineLog # <<>>) =>
        LET s == engineLog[Len(engineLog)].status
        IN  /\ exitCode = <<s>>
            /\ (exitCode = <<0>>) <=> (s = 0)

\* C1, witness: the engine reported the internal-error status 3 on an
\* existing tests directory, and the script ended with 3.
C1_Witness ==
    /\ pc = "exited"
    /\ testsDir
    /\ engineLog # <<>>
    /\ engineLog[1].status = 3
    /\ exitCode = <<3>>

\* C2, in every state: the engine is called once at most in a run of the
\* script; once it returned, the process has ended with an exit code; and
\* no command is entered after the test command.
C2_State ==
    /\ Len(engineLog) <= 1
    /\ engineLog # <<>> => pc = "exited" /\ exitCode # NoExit /\ TestRan
    /\ \A i \in 1..Len(executed) :
          executed[i] = "test" => i = Len(executed) /\ pc = "exited"

\* C2: a run of RunTests.run in which the engine returns calls the engine
\* exactly once, also after a non-zero status, and ends the process: run
\* gives control back to nobody, and an ended process does nothing more.
C2_OnceThenExit ==
    /\ [](C2_State)
    /\ [][pc = "exited" =>
            /\ pc' = "idle"
            /\ fs' = fs
            /\ installed' = installed
            /\ runs' = runs]_vars

\* C2, witness: `test install` with a failing session: one call of the
\* engine, the process ended, install never entered.
C2_Witness ==
    /\ pc = "exited"
    /\ Len(argv) = 2
    /\ argv[1].cmd = "test"
    /\ argv[2].cmd = "install"
    /\ executed = <<"test">>
    /\ Len(engineLog) = 1
    /\ engineLog[1].status = 1
    /\ installed = {}

\* C3: when the tests directory does not exist, a script that ran the test
\* command ends with a non-zero exit code; the command checks nothing
\* itself: the engine is called on the root `tests` all the same, and the
\* exit code is the status the engine reported.
C3_MissingTestsFails ==
    (pc = "exited" /\ ~testsDir /\ TestRan) =>
        /\ exitCode # NoExit
        /\ exitCode # <<0>>
        /\ pytestInstalled =>
              /\ Len(engineLog) = 1
              /\ TestRoots(engineLog[1].args) = {"tests"}
              /\ engineLog[1].status # 0
              /\ exitCode = <<engineLog[1].status>>

\* C3, witness: no tests directory, the engine reported the usage error 4,
\* and the script ended with 4.
C3_Witness ==
    /\ pc = "exited"
    /\ ~testsDir
    /\ TestRan
    /\ Len(engineLog) = 1
    /\ engineLog[1].status = 4
    /\ exitCode = <<4>>

\* C4 as claimed: after any run of the test command whose engine was
\* called, the paths the command wrote are exactly the three report
\* artifacts.
C4_Original ==
    (pc = "exited" /\ runs >= 1 /\ engineLog # <<>>) =>
        Written = ReportArtifacts

\* C4 as amended: in every run the command asks for exactly the three
\* report artifacts; what it wrote, over any number of runs and from any
\* prior contents, is among these three paths and is written over, never
\* added to; every other path holds what it held before; and after a run
\* whose engine produced every report asked for, the paths written are
\* exactly the three, as they are after one such run.
C4_OnlyTheThreeArtifacts ==
    /\ Written \subseteq ReportArtifacts
    /\ \A p \in Paths : fs[p] \in {Missing, Prior, Report}
    /\ \A p \in Paths \ ReportArtifacts :
          fs[p] = fsStart[p] /\ fs[p] # Report
    /\ \A p \in Paths : fsStart[p] = Report => fs[p] = Report
    /\ \A i \in 1..Len(engineLog) :
          /\ Sinks(engineLog[i].args) = ReportArtifacts
          /\ engineLog[i].wrote = Sinks(engineLog[i].args) =>
                Written = ReportArtifacts

\* C4, witness: the second run of the test command, from a directory that
\* held a file of its own before the first: the three artifacts of the
\* first run are written over, the set of paths is the same, and the other
\* file is as it was.
C4_Witness ==
    /\ pc = "exited"
    /\ runs = 2
    /\ engineLog # <<>>
    /\ engineLog[1].wrote = ReportArtifacts
    /\ \A p \in ReportArtifacts : fsStart[p] = Report /\ fs[p] = Report
    /\ fs[StalePath] = Prior
    /\ Written = ReportArtifacts

\* C5 as claimed: processing the descriptor yields exactly one installed
\* console command, `esmvaltool`: no other command is ever installed, and
\* once `install` has run to its end that command is the one installed.
C5_Original ==
    /\ installed \subseteq {EsmvaltoolScript}
    /\ "install" \in have_run => installed = {EsmvaltoolScript}

\* The console commands the distributions of the indexes declare.
ForeignScripts ==
    UNION {DependencyScripts(index, DOMAIN index.scripts) :
              index \in Indexes}

\* C5 as amended: the descriptor declares one console command,
\* `esmvaltool`, which calls esmvaltool.main:run, and registers no other
\* name; once `install` has run to its end that command is installed; and
\* every other installed command is one that a distribution fetched for
\* the install declares, a requirement or a requirement of a requirement,
\* and none the descriptor registered.
C5_OneConsoleCommand ==
    /\ dist # NoDist =>
          /\ DOMAIN dist.entry_points = {"console_scripts"}
          /\ Len(dist.entry_points.console_scripts) = 1
          /\ ConsoleScripts(dist) = {EsmvaltoolScript}
    /\ "install" \in have_run => EsmvaltoolScript \in installed
    /\ installed \ {EsmvaltoolScript} \subseteq ForeignScripts
    /\ EsmvaltoolScript \notin ForeignScripts

\* C5, witness: install ran to its end and the process ended with success;
\* esmvaltool is installed, and with it the commands of pytest, a
\* requirement, and of pluggy, a requirement of pytest.
C5_Witness ==
    /\ pc = "exited"
    /\ exitCode = <<0>>
    /\ "install" \in have_run
    /\ installed = {EsmvaltoolScript} \cup PytestScripts \cup PluggyScripts

\* C6: the runtime dependencies setup() is given are exactly the twelve
\* names of the specification, and the test-only dependencies exactly its
\* five.
C6_DependencySets ==
    dist # NoDist =>
        /\ Range(dist.install_requires) =
              {"cdo", "cf_units", "coverage", "cython", "esgf-pyclient",
               "numpy", "netCDF4", "matplotlib", "pyyaml", "pytest",
               "pytest-cov", "shapely"}
        /\ Range(dist.tests_require) =
              {"easytest", "mock", "nose", "pytest", "pytest-cov"}

\* C6, witness: setup() built the distribution and is about to run the
\* commands.
C6_Witness ==
    /\ pc = "commands"
    /\ dist # NoDist
    /\ Len(dist.install_requires) = 12
    /\ Len(dist.tests_require) = 5

\* C7: each dependency list is non-empty and names nothing twice, and the
\* names in both lists are exactly pytest and pytest-cov.
C7_ListsWellFormed ==
    dist # NoDist =>
        /\ dist.install_requires # <<>>
        /\ dist.tests_require # <<>>
        /\ Cardinality(Range(dist.install_requires)) =
              Len(dist.install_requires)
        /\ Cardinality(Range(dist.tests_require)) = Len(dist.tests_require)
        /\ Range(dist.install_requires) \cap Range(dist.tests_require) =
              {"pytest", "pytest-cov"}

\* C7, witness: a distribution whose two lists both name pytest.
C7_Witness ==
    /\ dist # NoDist
    /\ "pytest" \in Range(dist.install_requires)
    /\ "pytest" \in Range(dist.tests_require)

\* The two lifecycle hooks of RunTests, by name.
Hook(name, world) ==
    IF name = "initialize_options"
        THEN initialize_options(world)
        ELSE finalize_options(world)

\* The world after the hooks named in calls were called in that order.
RECURSIVE ApplyHooks(_, _)
ApplyHooks(calls, world) ==
    IF calls = <<>>
        THEN world
        ELSE ApplyHooks(Tail(calls), Hook(Head(calls), world))

\* Every sequence of at most MaxHookCalls calls of the two hooks.
HookSeqs ==
    UNION {[1..n -> {"initialize_options", "finalize_options"}] :
              n \in 0..MaxHookCalls}

\* The options given to `test` on the command line, and the attributes of
\* the command object they name: --verbose and --quiet name verbose,
\* --dry-run names dry_run.
TestOptions ==
    UNION {Range(argv[i].opts) :
              i \in {k \in 1..Len(argv) : argv[k].cmd = "test"}}

OptionAttrs ==
    (IF TestOptions \cap {"verbose", "quiet"} # {} THEN {"verbose"} ELSE {})
        \cup (IF "dry-run" \in TestOptions THEN {"dry_run"} ELSE {})

\* C8, in every state: `test` is bound to RunTests, whose list of options
\* is empty, so that the options accepted after `test` are the build tool's
\* global options and no other; as long as run was not called on the
\* command object, its attributes are those the constructor gave it (but
\* for the mark that it is finalized, and for what the build tool set from
\* the command line), the filesystem is as the script found it, the engine
\* was not called and the process has not ended; and whatever sequence of
\* the two hooks is called on the command object, the world after it is the
\* world before it.
C8_State ==
    /\ dist # NoDist =>
          /\ DOMAIN dist.cmdclass = {"test"}
          /\ CommandClass(dist, "test") = "RunTests"
          /\ UserOptions(CommandClass(dist, "test")) = <<>>
          /\ OptionTable(CommandClass(dist, "test")) = Range(global_options)
    /\ pc \in {"commands", "command"} =>
          TestOptions \subseteq Range(global_options)
    /\ pc = "command" =>
          /\ LET made == NewCommand("RunTests", dist)
             IN  /\ DOMAIN made \subseteq DOMAIN cmdObj
                 /\ \A a \in DOMAIN cmdObj :
                       (a \notin DOMAIN made \/ cmdObj[a] # made[a])
                           => a \in OptionAttrs \cup {"finalized"}
          /\ fs = fsStart
          /\ engineLog = <<>>
          /\ exitCode = NoExit
          /\ \A calls \in HookSeqs : ApplyHooks(calls, World) = World
    /\ (engineLog # <<>> \/ fs # fsStart) => TestRan

\* C8: the `test` command is RunTests, without options of its own, and a
\* call of initialize_options or finalize_options, in any order and any
\* number of times, changes neither the command's attributes nor the
\* filesystem, calls no engine and ends no process; only run does.  A step
\* of the build tool that calls a hook leaves the filesystem, the engine's
\* calls and the installed commands as they were; the step that calls
\* finalize_options changes the mark that the object is finalized and
\* nothing else; the step that makes the object ends the process only when
\* the command line gave `test` the option --no-user-cfg, which the build
\* tool cannot set on the object.
C8_HooksDoNothing ==
    /\ [](C8_State)
    /\ [][Len(hookLog') > Len(hookLog) =>
            /\ fs' = fs
            /\ engineLog' = engineLog
            /\ installed' = installed
            /\ hookLog # <<>> =>
                  /\ cmdObj' = [cmdObj EXCEPT !.finalized = 1]
                  /\ exitCode' = exitCode
                  /\ pc' = "command"
            /\ hookLog = <<>> =>
                  \/ /\ pc' = "command"
                     /\ exitCode' = exitCode
                  \/ /\ pc' = "exited"
                     /\ exitCode' = <<1>>
                     /\ "no-user-cfg" \in TestOptions]_vars

\* C8, witness: the build tool called initialize_options, then
\* finalize_options, on the command object, which has the attributes the
\* constructor gave it.
C8_Witness ==
    /\ pc = "command"
    /\ hookLog = <<"initialize_options", "finalize_options">>
    /\ cmdObj = [NewCommand("RunTests", dist) EXCEPT !.finalized = 1]

\* C9: every call of the engine names the test root `tests`, the coverage
\* target `esmvaltool`, and three sinks under the one directory
\* test-reports: coverage_html for the HTML coverage report, coverage.xml
\* for the XML coverage report, report.xml for the test results.
C9_SinksUnderReportDir ==
    \A i \in 1..Len(engineLog) :
        LET args == engineLog[i].args
            SinkUnder(opt) ==
                UNION {SinkOf(opt, args[j]) : j \in 1..Len(args)}
        IN  /\ Len(args) = 5
            /\ TestRoots(args) = {"tests"}
            /\ CovTargets(args) = {"esmvaltool"}
            /\ SinkUnder("--cov-report=html:") =
                  {"test-reports/coverage_html"}
            /\ SinkUnder("--cov-report=xml:") = {"test-reports/coverage.xml"}
            /\ SinkUnder("--junit-xml=") = {"test-reports/report.xml"}
            /\ \E d \in ReportDirs :
                  /\ d = "test-reports"
                  /\ Sinks(args) = {d \o l : l \in ReportLeaves}

\* C9, witness: the engine was called in the second run of the script.
C9_Witness ==
    /\ runs = 2
    /\ Len(engineLog) = 1
    /\ Len(engineLog[1].args) = 5

\* C10: a script that cannot open README.md ends with an error before
\* setup() is called: no distribution is built, no command is entered, no
\* command object is made, the engine is not called and the filesystem is
\* as it was, whether the tests directory exists or not.
C10_NoReadmeNoSetup ==
    (pc # "idle" /\ readme = ABSENT) =>
        /\ pc \in {"open", "exited"}
        /\ pc = "exited" => exitCode = <<1>>
        /\ dist = NoDist
        /\ pos = 0
        /\ executed = <<>>
        /\ cmdObj = NoCmd
        /\ hookLog = <<>>
        /\ engineLog = <<>>
        /\ fs = fsStart

\* C10, witness: `test` was asked for in a directory with tests and
\* without README.md, and the script has ended.
C10_Witness ==
    /\ pc = "exited"
    /\ readme = ABSENT
    /\ testsDir
    /\ \E i \in 1..Len(argv) : argv[i].cmd = "test"
    /\ exitCode = <<1>>

====
